---- MODULE Spec2Model ----
(***************************************************************************)
(* The Jenkins declarative pipeline of the-devops-deployment (Jenkinsfile) *)
(* as a state machine.  One build run executes the ten stages in order;    *)
(* every command of a stage's sh script is one step whose exit status is   *)
(* chosen by the environment.  Jenkins runs an sh step's script with       *)
(* "sh -xe": a command that exits non-zero ends the script, the step and   *)
(* the stage, unless the command is the left side of "|| ...".  A failed   *)
(* stage sets the build result to FAILURE, the remaining stages are        *)
(* skipped and the post section runs.  The Docker daemon (images, running  *)
(* service graph) outlives a run; the workspace is wiped by cleanWs().     *)
(***************************************************************************)
EXTENDS Naturals, Sequences, FiniteSets

VARIABLES
    buildNumber,    \* BUILD_NUMBER of the current run
    pc,             \* the command the run executes next, or a post step, or "done"
    log,            \* this run's executed commands: stage, place in its script, exit status zero
    currentResult,  \* Jenkins' currentBuild.currentResult
    hooks,          \* post conditions that have run in this run, in order
    dist,           \* workspace: mean-app/frontend/dist exists
    archives,       \* workspace: build numbers N with build-artifacts/frontend-dist-N.tar.gz
    images,         \* Docker daemon: build-numbered image tags <<service, N>>
    latest,         \* Docker daemon: the build whose image <service>:latest names (0: none)
    graph,          \* Docker daemon: the compose service graph (containers, network, volumes)
    timedOut,       \* the run was stopped by the timeout option
    envFile,        \* workspace: mean-app/.env exists
    descriptor,     \* workspace: the checked-out mean-app/docker-compose.yml
    history,        \* Jenkins job: the retained build runs, newest first
    workflowRuns    \* GitHub Actions: the events so far, each with the workflows it started

vars == <<buildNumber, pc, log, currentResult, hooks, dist, archives, images, latest, graph,
          timedOut, envFile, descriptor, history, workflowRuns>>

\* Number of consecutive build runs explored.
MaxBuilds == 2

\* The number of builds of the job in the specification of its build history.
MaxHistoryBuilds == 12

\* The number of GitHub events explored.
MaxEvents == 3

Services == {"backend", "frontend", "nginx"}

\* The stages, in their declared order.
Stages == << "Checkout", "Environment Setup", "Backend - Install & Test",
             "Frontend - Install & Build", "Docker - Build Images",
             "Docker - Validate Compose", "Docker - Integration Test",
             "Code Quality Analysis", "Security Scanning", "Build Artifacts" >>

\* A Build Images script that builds and tags the frontend before the backend.
StageCmds_FrontendFirst ==
             << << "checkout_scm" >>,
                << "node_version", "npm_version", "docker_version" >>,
                << "be_npm_install", "be_npm_test", "be_npm_lint" >>,
                << "fe_npm_install", "fe_npm_test", "fe_npm_build" >>,
                << "build_frontend", "tag_frontend", "build_backend",
                   "tag_backend", "build_nginx", "tag_nginx" >>,
                << "compose_config" >>,
                << "cp_env", "compose_up", "sleep", "compose_ps",
                   "health_probe", "compose_down" >>,
                << "find_wc" >>,
                << "audit_backend", "audit_frontend" >>,
                << "mkdir_artifacts", "tar_dist", "docker_images_grep" >> >>

\* The commands of each stage's steps, in script order (echo lines, which
\* cannot fail, and the final "cd ../.." of Security Scanning are left out).
StageCmds == << << "checkout_scm" >>,
                << "node_version", "npm_version", "docker_version" >>,
                << "be_npm_install", "be_npm_test", "be_npm_lint" >>,
                << "fe_npm_install", "fe_npm_test", "fe_npm_build" >>,
                << "build_backend", "tag_backend", "build_frontend",
                   "tag_frontend", "build_nginx", "tag_nginx" >>,
                << "compose_config" >>,
                << "cp_env", "compose_up", "sleep", "compose_ps",
                   "health_probe", "compose_down" >>,
                << "find_wc" >>,
                << "audit_backend", "audit_frontend" >>,
                << "mkdir_artifacts", "tar_dist", "docker_images_grep" >> >>

\* The pipeline with the "|| echo" after the backend "npm test" left out.
GuardedCmds_TestUnguarded == { "be_npm_lint", "fe_npm_test", "cp_env",
                               "health_probe", "compose_down", "find_wc",
                               "audit_backend", "audit_frontend" }

\* The pipeline with the "|| echo" after the health probe left out.
GuardedCmds_ProbeUnguarded == { "be_npm_test", "be_npm_lint", "fe_npm_test", "cp_env",
                                "compose_down", "find_wc",
                                "audit_backend", "audit_frontend" }

\* The pipeline with "|| echo" after both npm install commands.
GuardedCmds_InstallGuarded == { "be_npm_install", "fe_npm_install",
                                "be_npm_test", "be_npm_lint", "fe_npm_test", "cp_env",
                                "health_probe", "compose_down", "find_wc",
                                "audit_backend", "audit_frontend" }

\* The pipeline with the "|| true" after the teardown left out.
GuardedCmds_TeardownUnguarded == { "be_npm_test", "be_npm_lint", "fe_npm_test", "cp_env",
                                   "health_probe", "find_wc",
                                   "audit_backend", "audit_frontend" }

\* Commands written "cmd || echo ..." or "cmd || true": their failure is
\* swallowed by the shell and the script goes on.
GuardedCmds == { "be_npm_test", "be_npm_lint", "fe_npm_test", "cp_env",
                 "health_probe", "compose_down", "find_wc",
                 "audit_backend", "audit_frontend" }

\* The stage list of the Jenkins setup guide ("Files Explained: Jenkinsfile").
DocumentedStages == << "Checkout", "Environment Setup", "Backend - Install & Test",
                       "Frontend - Install & Build", "Docker - Build Images",
                       "Docker - Validate Compose", "Docker - Integration Test",
                       "Code Quality Analysis", "Security Scanning", "Build Artifacts" >>

StageIdx == 1..Len(Stages)

AllCmds == UNION { { StageCmds[i][j] : j \in 1..Len(StageCmds[i]) } : i \in StageIdx }

\* The index of the stage each command belongs to.
StageIndex ==
    [c \in AllCmds |-> CHOOSE i \in StageIdx : \E j \in 1..Len(StageCmds[i]) : StageCmds[i][j] = c]

StageOf(cmd) == StageIndex[cmd]

\* The position of each command in its stage's script.
ScriptPos ==
    [c \in AllCmds |-> CHOOSE j \in 1..Len(StageCmds[StageIndex[c]]) : StageCmds[StageIndex[c]][j] = c]

PosOf(cmd) == ScriptPos[cmd]

\* A stage list with one stage declared out of place: after a stage the
\* pipeline goes on two stages ahead.
Succ_SkipStage(cmd) ==
    LET i == StageOf(cmd)
        j == PosOf(cmd)
    IN  IF j < Len(StageCmds[i]) THEN StageCmds[i][j + 1]
        ELSE IF i + 1 < Len(Stages) THEN StageCmds[i + 2][1]
        ELSE "post_always"

\* Where control goes after a command that let the script go on: the next
\* command of the script, the first command of the next stage, or the post
\* section after the last stage.
Succ(cmd) ==
    LET i == StageOf(cmd)
        j == PosOf(cmd)
    IN  IF j < Len(StageCmds[i]) THEN StageCmds[i][j + 1]
        ELSE IF i < Len(Stages) THEN StageCmds[i + 1][1]
        ELSE "post_always"

\* A pipeline that goes on with the next stage after a failed stage.
AfterFailure_NextStage(cmd) ==
    IF StageOf(cmd) < Len(Stages) THEN StageCmds[StageOf(cmd) + 1][1] ELSE "post_always"

\* Where control goes when a step fails: declarative pipelines skip every
\* remaining stage and run the post section.
AfterFailure(cmd) == "post_always"

\* Whether the script goes on after a command with exit status ok (sh -e).
Continues(cmd, ok) == ok \/ cmd \in GuardedCmds

\* A pipeline whose failed step leaves the build result as it was.
ResultAfter_Unchanged(cmd, ok, result) == result

\* The build result after a command: a failed step makes the build FAILURE;
\* nothing in the pipeline ever sets UNSTABLE.
ResultAfter(cmd, ok, result) == IF Continues(cmd, ok) THEN result ELSE "FAILURE"

\* One command of an sh step (or the checkout step), with exit status ok,
\* going on at next when the script continues.
Sh(cmd, ok, next) ==
    /\ pc = cmd
    /\ log' = Append(log, [stage |-> StageOf(cmd), pos |-> PosOf(cmd), cmd |-> cmd, ok |-> ok])
    /\ pc' = IF Continues(cmd, ok) THEN next ELSE AfterFailure(cmd)
    /\ currentResult' = ResultAfter(cmd, ok, currentResult)

Init ==
    /\ buildNumber = 1
    /\ pc = "checkout_scm"
    /\ log = << >>
    /\ currentResult = "SUCCESS"
    /\ hooks = << >>
    /\ dist = FALSE
    /\ archives = {}
    /\ images = {}
    /\ latest = [s \in Services |-> 0]
    /\ graph = "idle"
    /\ timedOut = FALSE
    /\ envFile = FALSE
    /\ descriptor = "absent"
    /\ history = << >>
    /\ workflowRuns = << >>

\* The states of mean-app/docker-compose.yml in the workspace: not there, or
\* the checked-out revision's file, which is a valid descriptor or is not.
Descriptors == {"valid", "malformed"}

\* stage('Checkout'): checkout scm puts the revision's files, the descriptor
\* among them, into the workspace.
Checkout ==
    /\ \E ok \in BOOLEAN :
          /\ Sh("checkout_scm", ok, Succ("checkout_scm"))
          /\ IF ok THEN descriptor' \in Descriptors ELSE descriptor' = descriptor
    /\ UNCHANGED <<buildNumber, hooks, dist, archives, images, latest, graph, timedOut, envFile, history, workflowRuns>>

\* stage('Environment Setup')
EnvironmentSetup ==
    /\ \E cmd \in {"node_version", "npm_version", "docker_version"}, ok \in BOOLEAN :
          Sh(cmd, ok, Succ(cmd))
    /\ UNCHANGED <<buildNumber, hooks, dist, archives, images, latest, graph, timedOut, envFile, descriptor, history, workflowRuns>>

\* stage('Backend - Install & Test')
BackendInstallTest ==
    /\ \E cmd \in {"be_npm_install", "be_npm_test", "be_npm_lint"}, ok \in BOOLEAN :
          Sh(cmd, ok, Succ(cmd))
    /\ UNCHANGED <<buildNumber, hooks, dist, archives, images, latest, graph, timedOut, envFile, descriptor, history, workflowRuns>>

\* stage('Frontend - Install & Build'): a successful "npm run build" leaves
\* its bundle where the Angular configuration says, which may or may not be
\* mean-app/frontend/dist.
FrontendInstallBuild ==
    /\ \E cmd \in {"fe_npm_install", "fe_npm_test", "fe_npm_build"}, ok \in BOOLEAN :
          /\ Sh(cmd, ok, Succ(cmd))
          /\ IF cmd = "fe_npm_build" /\ ok
             THEN \E made \in BOOLEAN : dist' = (dist \/ made)
             ELSE dist' = dist
    /\ UNCHANGED <<buildNumber, hooks, archives, images, latest, graph, timedOut, envFile, descriptor, history, workflowRuns>>

\* An IMAGE_TAG that is a fixed string instead of the build number.
ImageTag_Fixed(n) == 1

\* IMAGE_TAG = "${BUILD_NUMBER}": the tag a run gives the images it builds.
ImageTag(n) == n

\* docker build -t <service>:<tag>: on success the image exists under the tag.
DockerBuild(imgs, s, tag, ok) == IF ok THEN imgs \cup {<<s, tag>>} ELSE imgs

\* docker tag <service>:<tag> <service>:latest can only succeed when the source
\* image exists.
CanTag(imgs, s, tag) == <<s, tag>> \in imgs

\* A docker tag that moves latest even when it exits non-zero.
DockerTag_Always(lat, s, tag, ok) == [lat EXCEPT ![s] = tag]

\* docker tag <service>:<tag> <service>:latest: on success latest names that image.
DockerTag(lat, s, tag, ok) == IF ok THEN [lat EXCEPT ![s] = tag] ELSE lat

\* The build and tag commands of stage('Docker - Build Images'), per service.
BuildCmd(s) == CASE s = "backend" -> "build_backend"
                 [] s = "frontend" -> "build_frontend"
                 [] s = "nginx" -> "build_nginx"

TagCmd(s) == CASE s = "backend" -> "tag_backend"
               [] s = "frontend" -> "tag_frontend"
               [] s = "nginx" -> "tag_nginx"

\* stage('Docker - Build Images')
DockerBuildImages ==
    /\ \E s \in Services, ok \in BOOLEAN :
          \/ /\ Sh(BuildCmd(s), ok, Succ(BuildCmd(s)))
             /\ images' = DockerBuild(images, s, ImageTag(buildNumber), ok)
             /\ latest' = latest
          \/ /\ ok => CanTag(images, s, ImageTag(buildNumber))
             /\ Sh(TagCmd(s), ok, Succ(TagCmd(s)))
             /\ latest' = DockerTag(latest, s, ImageTag(buildNumber), ok)
             /\ images' = images
    /\ UNCHANGED <<buildNumber, hooks, dist, archives, graph, timedOut, envFile, descriptor, history, workflowRuns>>

\* A validator that rejects a well-formed descriptor once a .env file lies
\* beside it.
ComposeConfig_EnvSensitive(d, env) == d = "valid" /\ ~env

\* docker-compose config > /dev/null: exits zero exactly when the descriptor
\* is well-formed; the .env file beside it plays no part.
ComposeConfig(d, env) == d = "valid"

\* A validation stage that brings the graph up to see whether it starts.
DockerValidateCompose_Up ==
    /\ \E ok \in BOOLEAN :
          /\ ok = ComposeConfig(descriptor, envFile)
          /\ Sh("compose_config", ok, Succ("compose_config"))
    /\ graph' = "up"
    /\ UNCHANGED <<buildNumber, hooks, dist, archives, images, latest, timedOut, envFile, descriptor, history, workflowRuns>>

\* stage('Docker - Validate Compose'): docker-compose config only parses the
\* descriptor.
DockerValidateCompose ==
    /\ \E ok \in BOOLEAN :
          /\ ok = ComposeConfig(descriptor, envFile)
          /\ Sh("compose_config", ok, Succ("compose_config"))
    /\ UNCHANGED <<buildNumber, hooks, dist, archives, images, latest, graph, timedOut, envFile, descriptor, history, workflowRuns>>

\* docker-compose up -d: on success the whole graph runs; a failed bring-up
\* may have started part of it.
ComposeUp(g, ok) == IF ok THEN {"up"} ELSE {g, "partial"}

\* docker-compose down -v: on success nothing of the graph is left; after a
\* failed teardown what was live is still not cleaned up.
ComposeDown(g, ok) == IF ok THEN {"idle"} ELSE {g}

\* cp .env.example .env: on success mean-app/.env exists.
CpEnv(env, ok) == env \/ ok

\* stage('Docker - Integration Test')
DockerIntegrationTest ==
    /\ \E cmd \in {"cp_env", "compose_up", "sleep", "compose_ps",
                   "health_probe", "compose_down"}, ok \in BOOLEAN :
          /\ cmd = "sleep" => ok
          /\ Sh(cmd, ok, Succ(cmd))
          /\ graph' \in CASE cmd = "compose_up" -> ComposeUp(graph, ok)
                          [] cmd = "compose_down" -> ComposeDown(graph, ok)
                          [] OTHER -> {graph}
          /\ envFile' = IF cmd = "cp_env" THEN CpEnv(envFile, ok) ELSE envFile
    /\ UNCHANGED <<buildNumber, hooks, dist, archives, images, latest, timedOut, descriptor, history, workflowRuns>>

\* stage('Code Quality Analysis')
CodeQualityAnalysis ==
    /\ \E ok \in BOOLEAN : Sh("find_wc", ok, Succ("find_wc"))
    /\ UNCHANGED <<buildNumber, hooks, dist, archives, images, latest, graph, timedOut, envFile, descriptor, history, workflowRuns>>

\* stage('Security Scanning')
SecurityScanning ==
    /\ \E cmd \in {"audit_backend", "audit_frontend"}, ok \in BOOLEAN :
          Sh(cmd, ok, Succ(cmd))
    /\ UNCHANGED <<buildNumber, hooks, dist, archives, images, latest, graph, timedOut, envFile, descriptor, history, workflowRuns>>

\* A script that runs tar without the test for the directory.
AfterMkdir_Always(d) == "tar_dist"

\* if [ -d "mean-app/frontend/dist" ]: tar runs only when the directory exists.
AfterMkdir(d) == IF d THEN "tar_dist" ELSE "docker_images_grep"

\* docker images | grep -E "mean-app|latest": the pipeline's status is grep's,
\* which finds a line only when docker lists at least one image.
CanGrep(imgs) == imgs # {}

\* stage('Build Artifacts')
BuildArtifacts ==
    /\ \E ok \in BOOLEAN :
          \/ /\ Sh("mkdir_artifacts", ok, AfterMkdir(dist))
             /\ archives' = archives
          \/ /\ Sh("tar_dist", ok, Succ("tar_dist"))
             /\ archives' = IF ok THEN archives \cup {buildNumber} ELSE archives
          \/ /\ ok => CanGrep(images)
             /\ Sh("docker_images_grep", ok, Succ("docker_images_grep"))
             /\ archives' = archives
    /\ UNCHANGED <<buildNumber, hooks, dist, images, latest, graph, timedOut, envFile, descriptor, history, workflowRuns>>

\* A post section whose success and failure blocks are swapped.
HookFor_Swapped(result) == CASE result = "SUCCESS" -> "failure"
                             [] result = "FAILURE" -> "success"
                             [] result = "UNSTABLE" -> "unstable"

\* The post condition that matches a build result.
HookFor(result) == CASE result = "SUCCESS" -> "success"
                     [] result = "FAILURE" -> "failure"
                     [] result = "UNSTABLE" -> "unstable"

\* The build results the post section has a condition block for; it has no
\* aborted block.
HookedResults == {"SUCCESS", "FAILURE", "UNSTABLE"}

\* logRotator(numToKeepStr: '10')
NumToKeep == 10

\* The position, in a list of builds with the newest first, of the last
\* successful build (result SUCCESS or UNSTABLE) and of the last stable build
\* (result SUCCESS); 0 when there is none.
LastSuccessful(builds) ==
    IF \E k \in DOMAIN builds : builds[k].result \in {"SUCCESS", "UNSTABLE"}
    THEN CHOOSE k \in DOMAIN builds :
            /\ builds[k].result \in {"SUCCESS", "UNSTABLE"}
            /\ \A j \in 1..(k - 1) : builds[j].result \notin {"SUCCESS", "UNSTABLE"}
    ELSE 0

LastStable(builds) ==
    IF \E k \in DOMAIN builds : builds[k].result = "SUCCESS"
    THEN CHOOSE k \in DOMAIN builds :
            /\ builds[k].result = "SUCCESS"
            /\ \A j \in 1..(k - 1) : builds[j].result # "SUCCESS"
    ELSE 0

\* The elements of seq at the positions idx, in their order.
SubSeqAt(seq, idx) ==
    LET n == Cardinality(idx)
        at == [i \in 1..n |-> CHOOSE k \in idx : Cardinality({j \in idx : j < k}) = i - 1]
    IN  [i \in 1..n |-> seq[at[i]]]

\* A discarder that keeps the newest NumToKeep builds and nothing else.
KeptBuilds_NewestOnly(builds) == {k \in DOMAIN builds : k <= NumToKeep}

\* The builds the discarder keeps: the newest NumToKeep, and beyond them the
\* last successful and the last stable build, which it never deletes.
KeptBuilds(builds) ==
    {k \in DOMAIN builds :
        k <= NumToKeep \/ k = LastSuccessful(builds) \/ k = LastStable(builds)}

\* buildDiscarder(logRotator(..)): run when a build completes, over the job's
\* builds with the completed one first.
LogRotate(builds) == SubSeqAt(builds, KeptBuilds(builds))

\* post { always { cleanWs() } }: the workspace is deleted.
PostAlways ==
    /\ pc = "post_always"
    /\ hooks' = Append(hooks, "always")
    /\ dist' = FALSE
    /\ archives' = {}
    /\ envFile' = FALSE
    /\ descriptor' = "absent"
    /\ pc' = "post_status"
    /\ UNCHANGED <<buildNumber, log, currentResult, images, latest, graph, timedOut, history, workflowRuns>>

\* post { success {..} failure {..} unstable {..} }, after which the build is
\* complete and the discarder runs.
PostStatus ==
    /\ pc = "post_status"
    /\ hooks' = IF currentResult \in HookedResults
                THEN Append(hooks, HookFor(currentResult))
                ELSE hooks
    /\ pc' = "done"
    /\ history' = LogRotate(<<[number |-> buildNumber, result |-> currentResult]>> \o history)
    /\ UNCHANGED <<buildNumber, log, currentResult, dist, archives, images, latest, graph, timedOut, envFile, descriptor, workflowRuns>>

\* The next build of the job starts, as long as the job has had fewer than
\* max builds: a fresh run with the next build number on the same agent and
\* Docker daemon.
StartBuild(max) ==
    /\ pc = "done"
    /\ buildNumber < max
    /\ buildNumber' = buildNumber + 1
    /\ pc' = "checkout_scm"
    /\ log' = << >>
    /\ currentResult' = "SUCCESS"
    /\ hooks' = << >>
    /\ timedOut' = FALSE
    /\ UNCHANGED <<dist, archives, images, latest, graph, envFile, descriptor, history, workflowRuns>>

NextBuild == StartBuild(MaxBuilds)

Next ==
    \/ Checkout
    \/ EnvironmentSetup
    \/ BackendInstallTest
    \/ FrontendInstallBuild
    \/ DockerBuildImages
    \/ DockerValidateCompose
    \/ DockerIntegrationTest
    \/ CodeQualityAnalysis
    \/ SecurityScanning
    \/ BuildArtifacts
    \/ PostAlways
    \/ PostStatus
    \/ NextBuild

Spec == Init /\ [][Next]_vars

\* A run stopped by the timeout ends with the result of a failed step.
TimeoutResult_Failure == "FAILURE"

\* The build result of a run the timeout option stops.
TimeoutResult == "ABORTED"

\* options { timeout(time: 1, unit: 'HOURS') }: when the hour is over the step
\* that is running is killed, whatever guards its command, the remaining
\* stages are skipped and the post section runs. A bring-up that is killed
\* may have started part of the graph; a killed teardown leaves what was live.
Timeout ==
    /\ pc \in AllCmds
    /\ timedOut' = TRUE
    /\ log' = Append(log, [stage |-> StageOf(pc), pos |-> PosOf(pc), cmd |-> pc, ok |-> FALSE])
    /\ currentResult' = TimeoutResult
    /\ pc' = "post_always"
    /\ graph' \in CASE pc = "compose_up" -> ComposeUp(graph, FALSE)
                    [] pc = "compose_down" -> ComposeDown(graph, FALSE)
                    [] OTHER -> {graph}
    /\ UNCHANGED <<buildNumber, hooks, dist, archives, images, latest, envFile, descriptor, history, workflowRuns>>

NextTimeout == Next \/ Timeout

\* The step just taken logged no failure other than a failed checkout: the
\* revision checked out has a valid descriptor, every command after the
\* checkout exits zero and the frontend build leaves its bundle in
\* mean-app/frontend/dist.
OnlyCheckoutFails ==
    /\ log' # << >> =>
          (log'[Len(log')].ok \/ log'[Len(log')].cmd = "checkout_scm")
    /\ descriptor' # "malformed"
    /\ pc = "fe_npm_build" => dist'

\* A long series of builds of the job, each of which either fails at its
\* checkout or passes every step.
NextHistory ==
    \/ Checkout /\ OnlyCheckoutFails
    \/ EnvironmentSetup /\ OnlyCheckoutFails
    \/ BackendInstallTest /\ OnlyCheckoutFails
    \/ FrontendInstallBuild /\ OnlyCheckoutFails
    \/ DockerBuildImages /\ OnlyCheckoutFails
    \/ DockerValidateCompose /\ OnlyCheckoutFails
    \/ DockerIntegrationTest /\ OnlyCheckoutFails
    \/ CodeQualityAnalysis /\ OnlyCheckoutFails
    \/ SecurityScanning /\ OnlyCheckoutFails
    \/ BuildArtifacts /\ OnlyCheckoutFails
    \/ PostAlways /\ OnlyCheckoutFails
    \/ PostStatus /\ OnlyCheckoutFails
    \/ StartBuild(MaxHistoryBuilds)

\* The job over more builds than the discarder keeps.
SpecHistory == Init /\ [][NextHistory]_vars

\* The pipeline with its timeout option.
SpecTimeout == Init /\ [][NextTimeout]_vars

----------------------------------------------------------------------------
\* The GitHub Actions workflows of the repository, as its CI/CD documentation
\* declares them.

Workflows == {"CI/CD", "PR Checks", "Docker Push", "Integration", "Release", "Deploy"}

\* What can start a workflow: a push to main or to develop, a pull request
\* to one of them, the push of a v* tag, the daily schedule, a manual
\* dispatch, and the completion of a successful Docker Push run.
Events == {"push_main", "push_develop", "pull_request", "tag_v", "schedule",
           "dispatch", "docker_push_done"}

\* The "Triggers:" list of each workflow in the Workflows Overview.
Triggers ==
    [w \in Workflows |->
        CASE w = "CI/CD" -> {"push_main", "push_develop", "pull_request"}
          [] w = "PR Checks" -> {"pull_request"}
          [] w = "Docker Push" -> {"tag_v", "push_main", "dispatch"}
          [] w = "Integration" -> {"schedule", "push_main", "dispatch"}
          [] w = "Release" -> {"tag_v", "dispatch"}
          [] w = "Deploy" -> {"docker_push_done", "dispatch"}]

\* Usage Guide, "Triggering Workflows": the workflows each event is said to
\* trigger.
UsageGuide ==
    [e \in {"push_main", "pull_request", "tag_v"} |->
        CASE e = "push_main" -> {"CI/CD", "Docker Push", "Integration"}
          [] e = "pull_request" -> {"PR Checks"}
          [] e = "tag_v" -> {"Release", "Docker Push"}]

\* The Trigger column of the Pipeline Status table.
StatusTable ==
    [w \in Workflows |->
        CASE w = "CI/CD" -> {"Push", "PR"}
          [] w = "PR Checks" -> {"PR"}
          [] w = "Docker Push" -> {"Tag", "Main"}
          [] w = "Integration" -> {"Daily", "Dispatch"}
          [] w = "Release" -> {"Tag", "Dispatch"}
          [] w = "Deploy" -> {"Docker Push"}]

\* The words of the Trigger column that stand for an event.
TableWords(e) ==
    CASE e = "push_main" -> {"Push", "Main"}
      [] e = "push_develop" -> {"Push"}
      [] e = "pull_request" -> {"PR"}
      [] e = "tag_v" -> {"Tag"}
      [] e = "schedule" -> {"Daily"}
      [] e = "dispatch" -> {"Dispatch"}
      [] e = "docker_push_done" -> {"Docker Push"}

\* The workflows an event starts: those whose trigger list contains it.
Started(e) == {w \in Workflows : e \in Triggers[w]}

\* A push, a pull request, a tag push or the daily schedule: every workflow
\* that lists the event starts.
RepositoryEvent ==
    /\ Len(workflowRuns) < MaxEvents
    /\ \E e \in Events \ {"dispatch", "docker_push_done"} :
          workflowRuns' = Append(workflowRuns, [event |-> e, started |-> Started(e)])
    /\ UNCHANGED <<buildNumber, pc, log, currentResult, hooks, dist, archives, images,
                   latest, graph, timedOut, envFile, descriptor, history>>

\* Manual workflow dispatch: one workflow that allows it is started by hand.
WorkflowDispatch ==
    /\ Len(workflowRuns) < MaxEvents
    /\ \E w \in Started("dispatch") :
          workflowRuns' = Append(workflowRuns, [event |-> "dispatch", started |-> {w}])
    /\ UNCHANGED <<buildNumber, pc, log, currentResult, hooks, dist, archives, images,
                   latest, graph, timedOut, envFile, descriptor, history>>

\* A Docker Push run that was started completes successfully.
DockerPushDone ==
    /\ Len(workflowRuns) < MaxEvents
    /\ \E k \in DOMAIN workflowRuns : "Docker Push" \in workflowRuns[k].started
    /\ workflowRuns' = Append(workflowRuns, [event |-> "docker_push_done",
                                              started |-> Started("docker_push_done")])
    /\ UNCHANGED <<buildNumber, pc, log, currentResult, hooks, dist, archives, images,
                   latest, graph, timedOut, envFile, descriptor, history>>

NextWorkflows == RepositoryEvent \/ WorkflowDispatch \/ DockerPushDone

\* The repository's GitHub Actions workflows under a series of events.
SpecWorkflows == Init /\ [][NextWorkflows]_vars

----------------------------------------------------------------------------
\* What a run has done so far, read off its log.

\* The command was executed in this run.
Ran(cmd) == \E k \in DOMAIN log : log[k].cmd = cmd

\* The command was executed and exited zero / non-zero.
Passed(cmd) == \E k \in DOMAIN log : log[k].cmd = cmd /\ log[k].ok

Failed(cmd) == \E k \in DOMAIN log : log[k].cmd = cmd /\ ~log[k].ok

\* How many times the command was executed in this run.
Count(cmd) == Cardinality({k \in DOMAIN log : log[k].cmd = cmd})

\* The stage was entered: one of its commands was executed.
StageExecuted(i) == \E k \in DOMAIN log : log[k].stage = i

\* The stage failed: one of its commands exited non-zero without "|| ...".
StageFailed(i) ==
    \E k \in DOMAIN log :
        /\ ~log[k].ok
        /\ log[k].stage = i
        /\ ~Continues(log[k].cmd, log[k].ok)

\* The stages that were entered, and the stages that failed.
ExecutedStages == {log[k].stage : k \in DOMAIN log}

FailedStages ==
    {log[k].stage : k \in {j \in DOMAIN log : ~log[j].ok /\ ~Continues(log[j].cmd, log[j].ok)}}

\* The test, lint and audit steps of the pipeline: backend tests, backend
\* lint, frontend tests, npm audit of the backend and of the frontend.
SoftFailSteps == {"be_npm_test", "be_npm_lint", "fe_npm_test",
                  "audit_backend", "audit_frontend"}

\* Some stage of the run failed.
RunFailed == \E k \in DOMAIN log : ~log[k].ok /\ ~Continues(log[k].cmd, log[k].ok)

\* The stages are over: the run is in its post section or finished.
StagesOver == pc \in {"post_always", "post_status", "done"}

\* The stage is no longer running.
StageEnded(i) == StagesOver \/ (pc \in AllCmds /\ StageOf(pc) > i)

BuildImagesStage == StageOf("build_backend")
ValidateStage == StageOf("compose_config")
IntegrationStage == StageOf("compose_up")
ArtifactsStage == StageOf("mkdir_artifacts")

----------------------------------------------------------------------------
\* C1: whenever the Integration Test stage has attempted bring-up
\* (docker-compose up -d) and the stage has ended, the teardown
\* (docker-compose down -v) was executed, also when bring-up or a step
\* between bring-up and teardown failed.
C1_TeardownOnEveryExit ==
    (StageEnded(IntegrationStage) /\ Ran("compose_up")) => Ran("compose_down")

\* The final status the aggregation rule prescribes for the finished run.
C2_Aggregate ==
    IF RunFailed THEN "FAILURE"
    ELSE IF \E c \in SoftFailSteps : Failed(c) THEN "UNSTABLE"
    ELSE "SUCCESS"

\* C2: the final status of every run is failure if a fatal stage failed,
\* unstable if a soft-fail step (backend tests, backend lint, frontend tests,
\* npm audit) failed and no fatal stage failed, and success otherwise.
C2_StatusAggregation == pc = "done" => currentResult = C2_Aggregate

\* C3: if the Docker - Build Images stage fails, neither the Docker -
\* Integration Test stage nor the Build Artifacts stage executes in that run.
C3_BuildFailureSkipsDownstream ==
    StageFailed(BuildImagesStage) =>
        /\ ~StageExecuted(IntegrationStage)
        /\ ~StageExecuted(ArtifactsStage)
        /\ StagesOver

\* A finished run whose image build failed.
C3_Witness == pc = "done" /\ Failed("build_frontend") /\ Passed("build_backend")

\* C4: in every completed run, whether it ends in success or in failure and
\* also when a fatal stage aborted it before the Integration Test stage, the
\* teardown with volume removal (docker-compose down -v) was executed exactly
\* once.
C4_CleanupExactlyOnce == pc = "done" => Count("compose_down") = 1

\* C5: for each service, if this run has tagged the service's image "latest"
\* then the image tagged with this run's build number exists and was built
\* earlier in this run, and "latest" is never applied after a failed build of
\* the service.
C5_LatestHasNumberedTag ==
    /\ \A k \in DOMAIN log :
          (log[k].stage = BuildImagesStage /\ log[k].ok) =>
              \A s \in Services :
                  log[k].cmd = TagCmd(s) =>
                      /\ <<s, buildNumber>> \in images
                      /\ latest[s] = buildNumber
                      /\ k > 1 /\ log[k - 1].cmd = BuildCmd(s) /\ log[k - 1].ok
                      /\ \A j \in 1..(k - 2) : log[j].cmd # BuildCmd(s)
    /\ \A s \in Services :
          /\ latest[s] = buildNumber => <<s, buildNumber>> \in images /\ Passed(TagCmd(s))
          /\ latest[s] # 0 => <<s, latest[s]>> \in images

\* The second run has built and tagged all three images.
C5_Witness ==
    /\ buildNumber = 2
    /\ \A s \in Services : Passed(TagCmd(s)) /\ latest[s] = 2

\* Every step of the run so far other than the test, lint and audit steps
\* exited zero.
C6_OthersPassed == \A k \in DOMAIN log : log[k].ok \/ log[k].cmd \in SoftFailSteps

\* C6: a failed test, lint or audit step never aborts the run: the command
\* that follows it in the pipeline is the next one executed, and when every
\* other step passes (the frontend build leaving its dist directory) all ten
\* stages execute, the three images of the run exist and the frontend archive
\* is produced.
C6_SoftFailContinues ==
    /\ \A k \in DOMAIN log :
          (~log[k].ok /\ log[k].cmd \in SoftFailSteps) =>
              /\ currentResult # "FAILURE" \/ k < Len(log)
              /\ IF k < Len(log) THEN log[k + 1].cmd = Succ(log[k].cmd)
                                 ELSE pc = Succ(log[k].cmd)
    /\ (pc = "post_always" /\ C6_OthersPassed /\ dist) =>
          /\ \A i \in StageIdx : StageExecuted(i)
          /\ \A s \in Services : <<s, buildNumber>> \in images /\ latest[s] = buildNumber
          /\ Passed("tar_dist")
          /\ buildNumber \in archives
          /\ currentResult # "FAILURE"

\* The stages of a run are over in which the backend tests, the frontend
\* tests and an audit failed, and the archive was produced.
C6_Witness ==
    /\ pc = "post_always"
    /\ Failed("be_npm_test") /\ Failed("be_npm_lint")
    /\ Failed("fe_npm_test") /\ Failed("audit_frontend")
    /\ C6_OthersPassed
    /\ buildNumber \in archives

\* Every step of the run so far other than the health probe exited zero.
C7_OthersPassed == \A k \in DOMAIN log : log[k].ok \/ log[k].cmd = "health_probe"

\* C7: a failed health probe does not gate the run.  When only the probe
\* fails, the Integration Test stage passes, teardown runs, the later stages
\* execute and the final status is success; and whatever the probe's outcome,
\* the step after it is the teardown and the status of the run is failure
\* exactly when some stage failed on another command.
C7_ProbeDoesNotGate ==
    /\ (pc = "done" /\ Failed("health_probe") /\ C7_OthersPassed) =>
          /\ currentResult = "SUCCESS"
          /\ ~StageFailed(IntegrationStage)
          /\ Passed("compose_down")
          /\ \A i \in StageIdx : StageExecuted(i)
          /\ hooks = <<"always", "success">>
    /\ \A k \in DOMAIN log :
          log[k].cmd = "health_probe" =>
              IF k < Len(log) THEN log[k + 1].cmd = "compose_down"
                              ELSE pc = "compose_down" /\ currentResult = "SUCCESS"
    /\ Ran("health_probe") =>
          (currentResult = "FAILURE" <=> RunFailed)

\* A finished run in which the probe failed and every other step passed.
C7_Witness ==
    /\ pc = "done"
    /\ Failed("health_probe")
    /\ C7_OthersPassed
    /\ Passed("docker_images_grep")

\* C8: if the Docker - Validate Compose stage fails, the Integration Harness
\* is never invoked in that run (no bring-up, no probe) and the final status
\* is failure.
C8_ValidationGate ==
    Failed("compose_config") =>
        /\ ~StageExecuted(IntegrationStage)
        /\ ~Ran("compose_up") /\ ~Ran("health_probe")
        /\ pc \in {"post_always", "post_status", "done"}
        /\ currentResult = "FAILURE"
        /\ pc = "done" => hooks = <<"always", "failure">>

\* A finished run whose descriptor validation failed after the images were built.
C8_Witness == pc = "done" /\ Failed("compose_config") /\ Passed("tag_nginx")

\* C9: the stages execute one at a time in the declared order, which is the
\* documented one.  The log starts with the first stage; each command is
\* followed by a later command
\* of the same stage or, after the last command of a stage, by the first
\* command of the next stage; and a stage is skipped only if an earlier stage
\* failed.
C9_Sequencing ==
    /\ log # << >> => log[1].cmd = StageCmds[1][1]
    /\ \A k \in DOMAIN log :
          /\ log[k].cmd = StageCmds[log[k].stage][log[k].pos]
          /\ Stages[log[k].stage] = DocumentedStages[log[k].stage]
    /\ LET failed == FailedStages
       IN  \A k \in DOMAIN log :
              k < Len(log) =>
                  LET i == log[k].stage
                      i2 == log[k + 1].stage
                  IN  \/ i2 = i /\ log[k + 1].pos > log[k].pos
                      \/ /\ i2 = i + 1
                         /\ log[k + 1].pos = 1
                         /\ log[k].pos = Len(StageCmds[i])
                         /\ i \notin failed
    /\ pc \in AllCmds /\ log # << >> =>
          LET i == log[Len(log)].stage
          IN  \/ StageOf(pc) = i /\ PosOf(pc) > log[Len(log)].pos
              \/ pc = StageCmds[i + 1][1]
    /\ StagesOver =>
          LET failed == FailedStages
              executed == ExecutedStages
          IN  \A i \in StageIdx \ executed :
                  \E j \in executed \cap failed : j < i

\* A finished second run that executed all ten stages with a failed test step on the way.
C9_Witness ==
    /\ buildNumber = 2
    /\ pc = "done"
    /\ \A i \in StageIdx : StageExecuted(i)
    /\ Failed("fe_npm_test")

\* C10: a failure of a command of the Build Artifacts stage is only logged:
\* a run that reached the stage ends with the status it entered the stage
\* with, success.
C10_ArtifactFailureNonFatal ==
    (pc = "done" /\ StageExecuted(ArtifactsStage)) => currentResult = "SUCCESS"

\* Every command the run executed exited zero.
AllPassed == \A k \in DOMAIN log : log[k].ok

\* C11: a run with build number N in which every step passes and the bundle
\* is archived ends with status success, with the images of the three
\* services under N and under latest, and with the archive
\* frontend-dist-N.tar.gz in existence.
C11_SuccessScenario ==
    (pc = "done" /\ AllPassed /\ Passed("tar_dist")) =>
        /\ currentResult = "SUCCESS"
        /\ \A s \in Services : <<s, buildNumber>> \in images /\ latest[s] = buildNumber
        /\ buildNumber \in archives

\* The npm install commands, and the test and lint commands of the same component.
InstallCmds == {"be_npm_install", "fe_npm_install"}

ComponentTests(c) == IF c = "be_npm_install" THEN {"be_npm_test", "be_npm_lint"}
                     ELSE {"fe_npm_test", "fe_npm_build"}

\* C12: when npm install fails in the backend or in the frontend stage, the
\* run stops there: the failed install is the last command the run executes,
\* the component's tests and every later stage never execute, and the final
\* status is failure, with the failure hook.
C12_InstallFailureFatal ==
    (\E k \in DOMAIN log : ~log[k].ok /\ log[k].cmd \in InstallCmds) =>
        LET c == log[Len(log)].cmd
        IN  /\ c \in InstallCmds
            /\ ~log[Len(log)].ok
            /\ \A t \in ComponentTests(c) : ~Ran(t)
            /\ \A i \in StageIdx : i > StageOf(c) => ~StageExecuted(i)
            /\ StagesOver
            /\ currentResult = "FAILURE"
            /\ pc = "done" => hooks = <<"always", "failure">>

\* A finished second run whose backend install passed and whose frontend install failed.
C12_Witness ==
    /\ buildNumber = 2
    /\ pc = "done"
    /\ Passed("be_npm_install")
    /\ Failed("fe_npm_install")

\* C13: at the end of every run the always hook has run exactly once and
\* exactly one notification hook has run, the one that matches the final
\* status: success, failure or unstable.
C13_PostHooks ==
    pc = "done" =>
        /\ Len(hooks) = 2
        /\ hooks[1] = "always"
        /\ hooks[2] \in {"success", "failure", "unstable"}
        /\ hooks[2] = "success" <=> currentResult = "SUCCESS"
        /\ hooks[2] = "failure" <=> currentResult = "FAILURE"
        /\ hooks[2] = "unstable" <=> currentResult = "UNSTABLE"

\* C13, amended: at the end of every run the always hook has run exactly
\* once, first; a run whose status is success, failure or unstable has then
\* run the one notification hook of that status, and a run the timeout
\* stopped, whose status is aborted, has run no notification hook at all.
C13_PostHooksUnlessAborted ==
    pc = "done" =>
        /\ hooks # << >> /\ hooks[1] = "always"
        /\ \A k \in 2..Len(hooks) : hooks[k] # "always"
        /\ currentResult = "SUCCESS" => hooks = <<"always", "success">>
        /\ currentResult = "FAILURE" => hooks = <<"always", "failure">>
        /\ currentResult = "UNSTABLE" => hooks = <<"always", "unstable">>
        /\ currentResult \notin {"SUCCESS", "FAILURE", "UNSTABLE"} =>
              timedOut /\ hooks = <<"always">>

\* A finished second run that failed, after a first run the timeout stopped.
C13_Witness ==
    /\ buildNumber = 2
    /\ pc = "done"
    /\ currentResult = "FAILURE"
    /\ hooks = <<"always", "failure">>
    /\ Len(history) = 2 /\ history[2].result = "ABORTED"

\* The state the integration harness is in while a command of the Integration
\* Test script runs: it prepares .env while still idle, starts the graph,
\* lets it settle (sleep 15, then the container listing), probes the health
\* endpoint and tears the graph down.
HarnessStateOf(cmd) ==
    CASE cmd = "compose_up" -> "starting"
      [] cmd \in {"sleep", "compose_ps"} -> "settling"
      [] cmd = "health_probe" -> "probing"
      [] cmd = "compose_down" -> "tearing_down"
      [] OTHER -> "idle"

\* The harness states the run's Integration Test stage has gone through, one
\* per executed command.
HarnessVisited ==
    LET h == SelectSeq(log, LAMBDA e : e.stage = IntegrationStage)
    IN  [k \in DOMAIN h |-> HarnessStateOf(h[k].cmd)]

\* C14: every execution of the Integration Test stage goes from idle through
\* starting, settling, probing and tearing_down, in that order and without
\* skipping or repeating a state, back to idle, and probes the health
\* endpoint exactly once, after the settle delay.
C14_HarnessStateMachine ==
    (StageExecuted(IntegrationStage) /\ StageEnded(IntegrationStage)) =>
        /\ HarnessVisited =
              <<"idle", "starting", "settling", "settling", "probing", "tearing_down">>
        /\ Count("health_probe") = 1

\* The order of the services the claim states.
C15_Order == <<"backend", "frontend", "nginx">>

\* C15: the images are built in the order backend, frontend, proxy: the
\* commands of the Build Images stage are executed one after the other as
\* build and tag of the first service, of the second, of the third, each
\* only after the one before it succeeded; when the build (or the tagging)
\* of one service fails the run stops there: it is the last command the run
\* executes, so that nothing is built or tagged after it and no later stage
\* is executed, no later service has an image or a latest tag of this run,
\* and the run ends failure.
C15_BuildOrderAndAbort ==
    \A k \in DOMAIN log :
        log[k].stage = BuildImagesStage =>
            LET p == log[k].pos
                a == (p + 1) \div 2
            IN  /\ a \in DOMAIN C15_Order
                /\ log[k].cmd = IF p % 2 = 1 THEN BuildCmd(C15_Order[a])
                                ELSE TagCmd(C15_Order[a])
                /\ p > 1 =>
                      /\ log[k - 1].stage = BuildImagesStage
                      /\ log[k - 1].pos = p - 1
                      /\ log[k - 1].ok
                /\ ~log[k].ok =>
                      /\ k = Len(log)
                      /\ StagesOver
                      /\ currentResult = "FAILURE"
                      /\ \A b \in DOMAIN C15_Order :
                            a < b =>
                                /\ <<C15_Order[b], ImageTag(buildNumber)>> \notin images
                                /\ latest[C15_Order[b]] # ImageTag(buildNumber)

\* A finished second run in which the backend image was built and tagged and
\* the frontend build failed.
C15_Witness ==
    /\ buildNumber = 2
    /\ pc = "done"
    /\ Passed("tag_backend")
    /\ Failed("build_frontend")

\* C16: at the end of every run, whatever its status and whichever step
\* failed, nothing the harness brought up is left live, so that every run's
\* bring-up starts from an idle graph.
C16_NoDirtyGraph ==
    /\ pc = "done" => graph = "idle"
    /\ pc = "compose_up" => graph = "idle"

C20_ValidatorFrame ==
    [][pc = "compose_config" =>
          (graph' = graph /\ images' = images /\ latest' = latest)]_vars

\* The Validate Compose stage of a second run has failed while the graph left
\* by the first run is live.
C20_Witness ==
    /\ buildNumber = 2
    /\ Failed("compose_config")
    /\ graph = "up"
    /\ images # {}

\* The number of builds of the job that have completed.
Completed == IF pc = "done" THEN buildNumber ELSE buildNumber - 1

\* The build number of the newest retained build that succeeded, 0 when no
\* retained build did.
RetainedSuccess(builds) ==
    IF LastStable(builds) = 0 THEN 0 ELSE builds[LastStable(builds)].number

\* C19: after any sequence of runs at most 10 build runs are retained, and
\* they are the most recent ones.
C19_Retention ==
    /\ Len(history) <= NumToKeep
    /\ \A k \in DOMAIN history : history[k].number = Completed - k + 1

\* C19, amended: the 10 most recent completed runs are retained, newest
\* first, and beyond them nothing but the last successful run, which stays
\* retained however old it is; so at most 11 runs are retained.
C19_RetentionKeepsLastSuccessful ==
    /\ [](/\ Len(history) <= NumToKeep + 1
          /\ \A k \in DOMAIN history :
                k <= NumToKeep => history[k].number = Completed - k + 1
          /\ Completed < NumToKeep => Len(history) = Completed
          /\ Completed >= NumToKeep => Len(history) >= NumToKeep
          /\ Len(history) = NumToKeep + 1 =>
                /\ history[NumToKeep + 1].number < Completed - NumToKeep + 1
                /\ history[NumToKeep + 1].result = "SUCCESS"
                /\ \A k \in 1..NumToKeep : history[k].result # "SUCCESS")
    /\ [][RetainedSuccess(history') >= RetainedSuccess(history)]_vars

\* Eleven runs are retained: the first run of the job, which succeeded, and
\* the ten runs after it, which all failed.
C19_Witness ==
    /\ pc = "done"
    /\ buildNumber = NumToKeep + 1
    /\ Len(history) = NumToKeep + 1
    /\ history[NumToKeep + 1] = [number |-> 1, result |-> "SUCCESS"]

\* C21: for each event of the usage guide (push to main, pull request, push
\* of a v* tag) the workflows the guide says it triggers are exactly the
\* workflows the event starts, those whose trigger list contains it, and
\* they are the workflows whose Trigger entry in the status table names the
\* event.
C21_TriggerMapping ==
    \A k \in DOMAIN workflowRuns :
        LET r == workflowRuns[k]
        IN  r.event \in DOMAIN UsageGuide =>
                /\ r.started = UsageGuide[r.event]
                /\ r.started = {w \in Workflows : TableWords(r.event) \cap StatusTable[w] # {}}

\* The highest build number under which the daemon has an image of the
\* service, 0 when it has none.
NewestBuilt(imgs, s) ==
    IF \E n \in 1..MaxBuilds + 1 : <<s, n>> \in imgs
    THEN CHOOSE n \in 1..MaxBuilds + 1 :
            <<s, n>> \in imgs /\ \A m \in 1..MaxBuilds + 1 : <<s, m>> \in imgs => m <= n
    ELSE 0

\* C22: across the runs of the job no image tag carries the number of a run
\* that did not build it, and at the end of every run the latest tag of each
\* service names the image of the highest-numbered run whose build of that
\* service succeeded, whatever the final status of that run.
C22_LatestIsNewestBuilt ==
    /\ \A im \in images : im[2] \in 1..buildNumber
    /\ pc = "done" => \A s \in Services : latest[s] = NewestBuilt(images, s)

\* C22, amended: build numbers only grow and a run builds images under its
\* own number only, so no two runs produce the same build-numbered tag; the
\* latest tag of a service moves only when the docker tag command of a run
\* succeeds, and then to that run's image, whatever the final status of the
\* run: it names the image of the highest-numbered run that built and tagged
\* the service, and stays on the older image when a run built the service
\* but its docker tag command failed.
C22_LatestIsNewestTagged ==
    /\ [](\A s \in Services :
            /\ latest[s] <= buildNumber
            /\ latest[s] = buildNumber <=> Passed(TagCmd(s))
            /\ latest[s] # 0 => <<s, latest[s]>> \in images
            /\ ~Passed(TagCmd(s)) => latest[s] <= NewestBuilt(images, s))
    /\ [][/\ buildNumber' >= buildNumber
          /\ images \subseteq images'
          /\ \A im \in images' \ images : im[2] = buildNumber /\ pc = BuildCmd(im[1])
          /\ \A s \in Services :
                latest'[s] # latest[s] =>
                    /\ pc = TagCmd(s)
                    /\ latest'[s] = buildNumber
                    /\ latest[s] < buildNumber
                    /\ <<s, buildNumber>> \in images]_vars

\* The second run has failed after building and tagging the backend image:
\* latest has moved to it, while the frontend's latest stays on the first
\* run's image because the second run's docker tag of the frontend failed.
C22_Witness ==
    /\ buildNumber = 2
    /\ pc = "done"
    /\ currentResult = "FAILURE"
    /\ latest["backend"] = 2
    /\ <<"frontend", 2>> \in images
    /\ latest["frontend"] = 1

\* Every step of the run so far other than the teardown exited zero.
C23_OthersPassed == \A k \in DOMAIN log : log[k].ok \/ log[k].cmd = "compose_down"

\* C23: a failed teardown is swallowed.  The build result right after it is
\* still success and the run goes on with the Code Quality stage; when
\* nothing but the teardown fails, the Integration Test stage has not
\* failed, every stage executes and the run ends success with the success
\* hook.
C23_TeardownFailureSwallowed ==
    /\ \A k \in DOMAIN log :
          (~log[k].ok /\ log[k].cmd = "compose_down") =>
              IF k < Len(log) THEN log[k + 1].cmd = "find_wc"
                              ELSE pc = "find_wc" /\ currentResult = "SUCCESS"
    /\ (pc = "done" /\ Failed("compose_down") /\ C23_OthersPassed) =>
          /\ currentResult = "SUCCESS"
          /\ ~StageFailed(IntegrationStage)
          /\ \A i \in StageIdx : StageExecuted(i)
          /\ hooks = <<"always", "success">>

\* A finished run in which only the teardown failed; the graph it should
\* have removed is still live.
C23_Witness ==
    /\ pc = "done"
    /\ Failed("compose_down")
    /\ C23_OthersPassed
    /\ currentResult = "SUCCESS"
    /\ graph = "up"

\* C24: the workspace holds no archive but that of the current run, and it
\* holds that one only if the Build Artifacts stage was reached, no earlier
\* stage having failed, and tar ran there on an existing dist directory;
\* tar runs right after the mkdir and only when the directory exists; when
\* it is absent the script goes from the mkdir straight to the image
\* listing with the build result still success, and a run in which every
\* executed command passed and tar was skipped ends success, all stages
\* executed, without an archive.
C24_ArchiveOnlyIfDist ==
    /\ archives \subseteq {buildNumber}
    /\ buildNumber \in archives =>
          /\ dist
          /\ Passed("tar_dist")
          /\ \A i \in FailedStages : i >= ArtifactsStage
    /\ \A k \in DOMAIN log :
          /\ log[k].cmd = "tar_dist" =>
                /\ k > 1 /\ log[k - 1].cmd = "mkdir_artifacts" /\ log[k - 1].ok
                /\ StagesOver \/ dist
          /\ log[k].cmd = "docker_images_grep" =>
                /\ k > 1 /\ log[k - 1].ok
                /\ \/ log[k - 1].cmd = "tar_dist"
                   \/ log[k - 1].cmd = "mkdir_artifacts" /\ (StagesOver \/ ~dist)
    /\ (pc = "docker_images_grep" /\ ~dist) =>
          /\ log[Len(log)].cmd = "mkdir_artifacts"
          /\ archives = {}
          /\ currentResult = "SUCCESS"
    /\ (pc = "done" /\ AllPassed /\ ~Ran("tar_dist")) =>
          /\ currentResult = "SUCCESS"
          /\ \A i \in StageIdx : StageExecuted(i)
          /\ hooks = <<"always", "success">>

\* A finished run that passed every command and skipped the archiving
\* because the frontend build left no dist directory.
C24_Witness ==
    /\ pc = "done"
    /\ Passed("fe_npm_build")
    /\ Passed("docker_images_grep")
    /\ ~Ran("tar_dist")
    /\ AllPassed
    /\ currentResult = "SUCCESS"

====
